---- MODULE Spec2Model ----
(***************************************************************************)
(* WMHorizontalTimeline (src/horizontalTimeline.js): the progress          *)
(* computation and synchronisation engine of the horizontal timeline       *)
(* widget, as a state machine.  One instance, its DOM targets, the values  *)
(* it writes to the rendering layer, the browser's pending callbacks and   *)
(* the geometry the browser reports.                                       *)
(***************************************************************************)
EXTENDS Integers, Sequences, FiniteSets, TLC

(***************************************************************************)
(* JavaScript numbers.  A finite number is an exact fraction n/d in lowest *)
(* terms (d > 0); NaN and the two infinities are separate values, because  *)
(* the code divides by measured lengths that can be 0.  The sign of zero   *)
(* is not kept: every divisor in the code is a difference x - y or a DOM   *)
(* length, which is +0 when it is zero, and Math.max(0, -0) is +0.         *)
(* Unset is a style property that was never written.                       *)
(***************************************************************************)
Abs(n) == IF n < 0 THEN -n ELSE n

RECURSIVE GCD(_, _)
GCD(a, b) == IF b = 0 THEN a ELSE GCD(b, a % b)

Rat(n, d) ==
    LET s == IF d < 0 THEN -1 ELSE 1
        g == GCD(Abs(n), Abs(d))
    IN  [k |-> "num", n |-> (s * n) \div g, d |-> Abs(d) \div g]

Num(n) == [k |-> "num", n |-> n, d |-> 1]
NaN == [k |-> "nan", n |-> 0, d |-> 1]
PosInf == [k |-> "inf", n |-> 1, d |-> 1]
NegInf == [k |-> "inf", n |-> -1, d |-> 1]
Unset == [k |-> "unset", n |-> 0, d |-> 1]

IsNaN(x) == x.k = "nan"
IsFinite(x) == x.k = "num"
Sign(x) == IF x.n > 0 THEN 1 ELSE IF x.n < 0 THEN -1 ELSE 0
Inf(s) == IF s > 0 THEN PosInf ELSE NegInf

\* a + b
Add(a, b) ==
    IF IsNaN(a) \/ IsNaN(b) THEN NaN
    ELSE IF IsFinite(a) /\ IsFinite(b) THEN Rat(a.n * b.d + b.n * a.d, a.d * b.d)
    ELSE IF IsFinite(a) THEN b
    ELSE IF IsFinite(b) THEN a
    ELSE IF a.n = b.n THEN a ELSE NaN

\* -a
Neg(a) == IF IsNaN(a) THEN NaN ELSE [a EXCEPT !.n = -a.n]

\* a - b
Sub(a, b) == Add(a, Neg(b))

\* a * b
Mul(a, b) ==
    IF IsNaN(a) \/ IsNaN(b) THEN NaN
    ELSE IF IsFinite(a) /\ IsFinite(b) THEN Rat(a.n * b.n, a.d * b.d)
    ELSE IF Sign(a) = 0 \/ Sign(b) = 0 THEN NaN
    ELSE Inf(Sign(a) * Sign(b))

\* a / b
Div(a, b) ==
    IF IsNaN(a) \/ IsNaN(b) THEN NaN
    ELSE IF IsFinite(a) /\ IsFinite(b) THEN
        IF b.n # 0 THEN Rat(a.n * b.d, a.d * b.n)
        ELSE IF a.n = 0 THEN NaN
        ELSE Inf(Sign(a))
    ELSE IF IsFinite(a) THEN Num(0)
    ELSE IF IsFinite(b) THEN Inf(Sign(a) * (IF b.n < 0 THEN -1 ELSE 1))
    ELSE NaN

\* a <= b  (false when either is NaN)
Leq(a, b) ==
    IF IsNaN(a) \/ IsNaN(b) THEN FALSE
    ELSE IF IsFinite(a) /\ IsFinite(b) THEN a.n * b.d <= b.n * a.d
    ELSE IF IsFinite(a) THEN b.n > 0
    ELSE IF IsFinite(b) THEN a.n < 0
    ELSE a.n <= b.n

\* Math.max(a, b) and Math.min(a, b): NaN when either argument is NaN
MathMax(a, b) == IF IsNaN(a) \/ IsNaN(b) THEN NaN ELSE IF Leq(a, b) THEN b ELSE a
MathMin(a, b) == IF IsNaN(a) \/ IsNaN(b) THEN NaN ELSE IF Leq(a, b) THEN a ELSE b

(***************************************************************************)
(* Bounds of the model.                                                    *)
(***************************************************************************)
\* largest number of timeline items (this.data.length)
MaxItems == 3
\* scroll offsets are the multiples of 100 px up to MaxScroll * 100
MaxScroll == 2

(***************************************************************************)
(* Configuration and the geometry the browser reports.                     *)
(***************************************************************************)
\* window.innerWidth <= 767 is "mobile"
MobileBreakpoint == 767
\* scrollPerItem default, also the fallback of `scrollPerItem || 300`
DefaultScrollPerItem == 300
\* setTimeout delay of the debounced resize handlers
ResizeDelay == 100
\* window.innerHeight, fixed in this model
InnerHeight == 1000
\* document offset of the scroll spacer's top edge
SpacerDocTop == 100
\* document offset of the timeline area's top edge (vertical layout)
AreaDocTop == 400

NavigationTypes == {"scroll", "arrows"}
MobileLayouts == {"horizontal", "vertical"}
\* settings.scrollPerItem as the page configures it
ScrollPerItems == {100}
InnerWidths == {MobileBreakpoint, MobileBreakpoint + 1}
ScrollYs == {100 * j : j \in 0..MaxScroll}
\* arguments of the public goToIndex(index)
Indexes == -1..(MaxItems + 1)

\* Layouts the page can be in.  hidden: the section is display:none, every
\* measurement is 0.  The others differ in the sticky wrapper's height
\* (offsetHeight), the timeline area's height, the items container's width,
\* the width of one item and the progress track's width.
Layouts ==
    { [hidden |-> TRUE, stickyHeight |-> 0, areaHeight |-> 0,
       containerWidth |-> 0, itemWidth |-> 0, progressWidth |-> 0],
      [hidden |-> FALSE, stickyHeight |-> 500, areaHeight |-> 200,
       containerWidth |-> 300, itemWidth |-> 200, progressWidth |-> 300],
      [hidden |-> FALSE, stickyHeight |-> 800, areaHeight |-> 500,
       containerWidth |-> 1000, itemWidth |-> 400, progressWidth |-> 900] }

VARIABLES
    settings,      \* this.settings: navigationType, mobileLayout, scrollPerItem
    data,          \* this.data: null, or the item list (its length)
    scrollSpacer,  \* el.querySelector('.wm-timeline-scroll-spacer') finds the built tree
    refs,          \* this.itemsTrack, progressFill, labelsTrack, dots, prevButton, nextButton
    inst,          \* currentIndex, scrollHeight and every value written to the page
    sched,         \* listeners, the ticking flag, pending frame callbacks and timers
    env            \* window.innerWidth, the scroll offset, the current layout

vars == <<settings, data, scrollSpacer, refs, inst, sched, env>>

config == <<settings, data>>

(***************************************************************************)
(* What the handlers read: DOM lookups and measurements.                   *)
(***************************************************************************)
ItemCount == data.length
NoData == data.null \/ data.length = 0

\* Every target below is a descendant of the scroll spacer: a querySelector
\* for it succeeds exactly while the spacer is attached to this.el.
StickyWrapper == scrollSpacer
TimelineArea == scrollSpacer
ItemsContainer == scrollSpacer
ProgressTrack == scrollSpacer
ProgressContainer == scrollSpacer

IsMobile == env.innerWidth <= MobileBreakpoint
IsVerticalMobile == IsMobile /\ settings.mobileLayout = "vertical"

\* stickyWrapper ? stickyWrapper.offsetHeight : viewportHeight
ContentHeight == IF StickyWrapper THEN env.layout.stickyHeight ELSE InnerHeight

\* scrollSpacer.getBoundingClientRect().top when the window is scrolled to y
SpacerRectTopAt(y) == IF env.layout.hidden THEN 0 ELSE SpacerDocTop - y
SpacerRectTop == SpacerRectTopAt(env.scrollY)
\* timelineArea.getBoundingClientRect(): top (when the window is scrolled to
\* y) and height; the progress track spans the area in the vertical layout
AreaRectTopAt(y) == IF env.layout.hidden THEN 0 ELSE AreaDocTop - y
AreaRectTop == AreaRectTopAt(env.scrollY)
AreaRectHeight == env.layout.areaHeight

ContainerWidth == env.layout.containerWidth
ItemWidth == env.layout.itemWidth
\* items[i].offsetLeft: the items sit side by side in the track
ItemOffsetLeft(i) == i * ItemWidth
\* this.itemsTrack.scrollWidth: never less than the track's own box
TrackScrollWidth ==
    IF ItemCount * ItemWidth > ContainerWidth THEN ItemCount * ItemWidth ELSE ContainerWidth
ProgressTrackWidth == env.layout.progressWidth

\* dot.getBoundingClientRect() centre on the horizontal axis: the dot sits at
\* the middle of its item and moves with the translated track
DotCenterX(i, translateX) ==
    IF env.layout.hidden THEN Num(0)
    ELSE Sub(Rat(2 * ItemOffsetLeft(i) + ItemWidth, 2), translateX)
\* the same on the vertical axis: the items are stacked in the area
DotCenterY(i) ==
    IF env.layout.hidden \/ ItemCount = 0 THEN Num(0)
    ELSE Add(Num(AreaRectTop), Rat((2 * i + 1) * AreaRectHeight, 2 * ItemCount))

\* the translation in effect on a track whose transform was never written is 0
Applied(x) == IF x.k = "unset" THEN Num(0) ELSE x

Clamp01(x) == MathMax(Num(0), MathMin(Num(1), x))

(***************************************************************************)
(* The methods, as functions of the instance state s (a value of inst).    *)
(***************************************************************************)
Auto == [k |-> "auto", n |-> 0, d |-> 1]

ScrollPerItem ==
    IF settings.scrollPerItem # 0 THEN settings.scrollPerItem ELSE DefaultScrollPerItem

\* calculateDimensions without the vertical-mobile rule
calculateDimensionsDesktopOnly(s) ==
    IF NoData THEN s
    ELSE IF ~scrollSpacer THEN s
    ELSE IF settings.navigationType = "arrows"
         THEN [s EXCEPT !.spacerHeight = Auto]
    ELSE LET h == ContentHeight + ItemCount * ScrollPerItem
         IN  [s EXCEPT !.scrollHeight = h, !.spacerHeight = Num(h)]

calculateDimensions(s) ==
    IF NoData THEN s
    ELSE IF ~scrollSpacer THEN s
    ELSE IF settings.navigationType = "arrows" \/ IsVerticalMobile
         THEN [s EXCEPT !.spacerHeight = Auto]
    ELSE LET h == ContentHeight + ItemCount * ScrollPerItem
         IN  [s EXCEPT !.scrollHeight = h, !.spacerHeight = Num(h)]

\* viewportHeight * 0.3
Threshold == Rat(InnerHeight * 3, 10)

\* the vertical branch: scrollRange, and progress when the window is at y
VerticalScrollRange == Sub(Num(AreaRectHeight), Threshold)

VerticalProgressAt(y) ==
    LET scrollStart == Sub(Threshold, Num(AreaRectTopAt(y)))
    IN  Clamp01(Div(scrollStart, VerticalScrollRange))

VerticalProgress == VerticalProgressAt(env.scrollY)

\* the horizontal branch: scrollRange, and progress when the window is at y
HorizontalScrollRange(s) == Num(s.scrollHeight - ContentHeight)

HorizontalProgressAt(s, y) ==
    LET scrollStart == Neg(Num(SpacerRectTopAt(y)))
    IN  Clamp01(Div(scrollStart, HorizontalScrollRange(s)))

HorizontalProgress(s) == HorizontalProgressAt(s, env.scrollY)

\* SetTranslate without the labels track
SetTranslateItemsOnly(s, translateX) == [s EXCEPT !.itemsTransform = translateX]

\* itemsTrack.style.transform = translateX(-x px), and the same on the labels
\* track when there is one
SetTranslate(s, translateX) ==
    [s EXCEPT !.itemsTransform = translateX,
              !.labelsTransform = IF refs.labelsTrack THEN translateX ELSE s.labelsTransform]

\* Math.max(0, trackWidth - containerWidth)
MaxTranslate ==
    IF TrackScrollWidth - ContainerWidth > 0 THEN TrackScrollWidth - ContainerWidth ELSE 0

updateTimelineVertical(s) ==
    IF ~TimelineArea THEN s
    ELSE LET progress == VerticalProgress
             progressFillBottom == Add(Num(AreaRectTop), Mul(progress, Num(AreaRectHeight)))
             s1 == [s EXCEPT !.progress = progress,
                             !.fillHeight = Mul(progress, Num(100)),
                             !.fillWidth = Num(100)]
         IN  IF ~ProgressTrack THEN s1
             ELSE [s1 EXCEPT !.dotFilled =
                     [i \in DOMAIN s.dotFilled |->
                        IF i < refs.dots THEN Leq(DotCenterY(i), progressFillBottom)
                        ELSE s.dotFilled[i]]]

\* updateTimelineHorizontal with the dot comparison turned round
\* (progressFillRight <= dotCenter)
updateTimelineHorizontalReversed(s) ==
    LET progress == HorizontalProgress(s)
        translateX == Mul(progress, Num(MaxTranslate))
        s1 == [s EXCEPT !.progress = progress,
                        !.fillWidth = Mul(progress, Num(100)),
                        !.fillHeight = Num(100)]
        s2 == IF ItemsContainer /\ refs.itemsTrack
              THEN SetTranslate(s1, translateX)
              ELSE s1
        progressFillRight == Add(Num(0), Mul(progress, Num(ProgressTrackWidth)))
    IN  IF ~ProgressContainer THEN s2
        ELSE [s2 EXCEPT !.dotFilled =
                [i \in DOMAIN s.dotFilled |->
                   IF i < refs.dots
                   THEN Leq(progressFillRight, DotCenterX(i, Applied(s2.itemsTransform)))
                   ELSE s.dotFilled[i]]]

updateTimelineHorizontal(s) ==
    LET progress == HorizontalProgress(s)
        translateX == Mul(progress, Num(MaxTranslate))
        s1 == [s EXCEPT !.progress = progress,
                        !.fillWidth = Mul(progress, Num(100)),
                        !.fillHeight = Num(100)]
        s2 == IF ItemsContainer /\ refs.itemsTrack
              THEN SetTranslate(s1, translateX)
              ELSE s1
        progressFillRight == Add(Num(0), Mul(progress, Num(ProgressTrackWidth)))
    IN  IF ~ProgressContainer THEN s2
        ELSE [s2 EXCEPT !.dotFilled =
                [i \in DOMAIN s.dotFilled |->
                   IF i < refs.dots
                   THEN Leq(DotCenterX(i, Applied(s2.itemsTransform)), progressFillRight)
                   ELSE s.dotFilled[i]]]

updateTimeline(s) ==
    IF ~scrollSpacer \/ ~refs.itemsTrack \/ ~refs.progressFill THEN s
    ELSE IF IsVerticalMobile THEN updateTimelineVertical(s)
    ELSE updateTimelineHorizontal(s)

\* updateArrowStates with the next button disabled only past the last index
updateArrowStatesPastEnd(s) ==
    IF ~refs.prevButton \/ ~refs.nextButton THEN s
    ELSE [s EXCEPT !.prevDisabled = (s.currentIndex = 0),
                   !.nextDisabled = (s.currentIndex > ItemCount - 1)]

updateArrowStates(s) ==
    IF ~refs.prevButton \/ ~refs.nextButton THEN s
    ELSE [s EXCEPT !.prevDisabled = (s.currentIndex = 0),
                   !.nextDisabled = (s.currentIndex >= ItemCount - 1)]

\* ClampIndex without the lower bound Math.max(0, ...)
ClampIndexUpperOnly(index) ==
    IF index < ItemCount - 1 THEN index ELSE ItemCount - 1

\* Math.max(0, Math.min(index, itemCount - 1))
ClampIndex(index) ==
    LET m == IF index < ItemCount - 1 THEN index ELSE ItemCount - 1
    IN  IF m > 0 THEN m ELSE 0

\* the fill percentage goToIndex computes from the dot's position
GeometricFillPercent(currentIndex, translateX) ==
    LET itemCenter == Rat(2 * ItemOffsetLeft(currentIndex) + ItemWidth, 2)
        dotPositionAfterTranslate == Sub(itemCenter, translateX)
    IN  MathMin(Num(100), MathMax(Num(0),
            Mul(Div(dotPositionAfterTranslate, Num(ProgressTrackWidth)), Num(100))))

\* FillPercent without the "fill to end on last item" override
FillPercentNoOverride(currentIndex, translateX) ==
    GeometricFillPercent(currentIndex, translateX)

\* the percentage goToIndex writes to the progress fill: 100 on the last item
FillPercent(currentIndex, translateX) ==
    IF currentIndex = ItemCount - 1 THEN Num(100)
    ELSE GeometricFillPercent(currentIndex, translateX)

\* DotFilledByIndex with i < this.currentIndex
DotFilledBelowIndex(i, currentIndex) == i < currentIndex

\* classList.toggle('wm-timeline-dot--filled', i <= this.currentIndex)
DotFilledByIndex(i, currentIndex) == i <= currentIndex

\* SetDotsByIndex with classList.toggle(name) in place of toggle(name, force):
\* it flips the class of the dots up to the current one
ToggleDotsByIndex(s, currentIndex) ==
    [s EXCEPT !.dotFilled =
        [i \in DOMAIN s.dotFilled |->
           IF i < refs.dots /\ i <= currentIndex THEN ~s.dotFilled[i] ELSE s.dotFilled[i]]]

\* this.dots.forEach((dot, i) => dot.classList.toggle(..., i <= this.currentIndex))
SetDotsByIndex(s, currentIndex) ==
    [s EXCEPT !.dotFilled =
        [i \in DOMAIN s.dotFilled |->
           IF i < refs.dots THEN DotFilledByIndex(i, currentIndex) ELSE s.dotFilled[i]]]

\* the translation goToIndex gives the tracks
TargetTranslate(currentIndex) ==
    LET targetTranslate ==
            MathMax(Num(0), Rat(2 * ItemOffsetLeft(currentIndex) - ContainerWidth + ItemWidth, 2))
    IN  MathMin(targetTranslate, Num(MaxTranslate))

goToIndex(s, index) ==
    IF NoData THEN s
    ELSE LET ci == ClampIndex(index)
             items == IF refs.itemsTrack THEN ItemCount ELSE 0
             s1 == [s EXCEPT !.currentIndex = ci]
             s2 == IF ItemsContainer /\ refs.itemsTrack /\ items > 0 /\ ProgressTrack
                      /\ ci < items /\ ci < refs.dots
                   THEN LET translateX == TargetTranslate(ci)
                        IN  [SetTranslate(s1, translateX)
                                EXCEPT !.fillWidth = FillPercent(ci, translateX)]
                   ELSE s1
         IN  updateArrowStates(SetDotsByIndex(s2, ci))

\* this.data.length on a null this.data throws a TypeError
goNext(s) ==
    IF data.null THEN [s EXCEPT !.threw = TRUE]
    ELSE IF s.currentIndex < ItemCount - 1 THEN goToIndex(s, s.currentIndex + 1)
    ELSE s

\* goPrev with the guard currentIndex >= 0
goPrevFromZero(s) ==
    IF s.currentIndex >= 0 THEN goToIndex(s, s.currentIndex - 1) ELSE s

goPrev(s) ==
    IF s.currentIndex > 0 THEN goToIndex(s, s.currentIndex - 1) ELSE s

(***************************************************************************)
(* Construction: the state after `new WMHorizontalTimeline(el, settings)`, *)
(* that is after init() ran extractData, buildLayout, calculateDimensions  *)
(* and bindEvents.                                                         *)
(***************************************************************************)
\* the fields the constructor sets, with the dots buildLayout created
NewInstance(dots) ==
    [currentIndex |-> 0, scrollHeight |-> 0, spacerHeight |-> Unset,
     itemsTransform |-> Unset, labelsTransform |-> Unset,
     fillWidth |-> Unset, fillHeight |-> Unset,
     dotFilled |-> [i \in 0..(dots - 1) |-> FALSE],
     prevDisabled |-> FALSE, nextDisabled |-> FALSE,
     progress |-> Unset, threw |-> FALSE]

\* buildLayout builds the tree unless there is no data or no .content-wrapper
buildLayout(contentWrapper) ==
    LET built == ~NoData /\ contentWrapper
        arrows == settings.navigationType = "arrows"
    IN  [itemsTrack |-> built, progressFill |-> built, labelsTrack |-> built,
         dots |-> IF built THEN ItemCount ELSE 0,
         prevButton |-> built /\ arrows, nextButton |-> built /\ arrows]

\* boundHandleScroll without the ticking test: every signal requests a frame
boundHandleScrollNoFlag(sc) == [sc EXCEPT !.scrollFrame = @ + 1, !.ticking = TRUE]

\* boundHandleScroll on the schedule sc, whose scrollFrame counts the frame
\* callbacks it has requested and that have not run yet
boundHandleScroll(sc) ==
    IF ~sc.ticking
    THEN [sc EXCEPT !.scrollFrame = @ + 1, !.ticking = TRUE]
    ELSE sc

\* boundHandleResize without the clearTimeout: every signal adds a timer
boundHandleResizeNoClear(sc) == [sc EXCEPT !.resizeTimeout = @ + 1]

\* boundHandleResize on the schedule sc, whose resizeTimeout counts the pending
\* resize timers: clearTimeout(resizeTimeout) drops the pending one, setTimeout
\* starts a new one
boundHandleResize(sc) ==
    LET cleared == [sc EXCEPT !.resizeTimeout = 0]
    IN  [cleared EXCEPT !.resizeTimeout = @ + 1]

\* bindEvents: the listeners it registers and the callbacks it schedules
bindEvents ==
    IF settings.navigationType = "arrows"
    THEN [ticking |-> FALSE, scrollFrame |-> 0, initFrame |-> TRUE,
          resizeTimeout |-> 0, resizeListener |-> TRUE,
          scrollListener |-> settings.mobileLayout = "vertical",
          observing |-> FALSE, observerPending |-> FALSE]
    ELSE [ticking |-> FALSE, scrollFrame |-> 0, initFrame |-> TRUE,
          resizeTimeout |-> 0, resizeListener |-> TRUE,
          scrollListener |-> TRUE,
          observing |-> refs.itemsTrack, observerPending |-> refs.itemsTrack]

Datas ==
    {[null |-> TRUE, length |-> 0]} \cup {[null |-> FALSE, length |-> n] : n \in 0..MaxItems}

Init ==
    /\ settings \in [navigationType : NavigationTypes, mobileLayout : MobileLayouts,
                     scrollPerItem : ScrollPerItems]
    /\ data \in Datas
    /\ env \in [innerWidth : InnerWidths, scrollY : {0}, layout : Layouts]
    /\ \E contentWrapper \in BOOLEAN :
         /\ (NoData => contentWrapper)
         /\ refs = buildLayout(contentWrapper)
    /\ scrollSpacer = refs.itemsTrack
    /\ inst = calculateDimensions(NewInstance(refs.dots))
    /\ sched = bindEvents

(***************************************************************************)
(* Steps: browser events, the callbacks they schedule, the public methods. *)
(***************************************************************************)
\* the window scrolls to offset y and boundHandleScroll, while registered,
\* asks for one frame (a scroll no listener hears reaches no code)
Scroll(y) ==
    /\ sched.scrollListener
    /\ y # env.scrollY
    /\ env' = [env EXCEPT !.scrollY = y]
    /\ sched' = boundHandleScroll(sched)
    /\ UNCHANGED <<config, scrollSpacer, refs, inst>>

\* ScrollFrame without the callback's ticking = false
ScrollFrameKeepsTicking ==
    /\ sched.scrollFrame > 0
    /\ inst' = IF settings.navigationType = "arrows" /\ ~IsVerticalMobile
               THEN inst ELSE updateTimeline(inst)
    /\ sched' = [sched EXCEPT !.scrollFrame = @ - 1]
    /\ UNCHANGED <<config, scrollSpacer, refs, env>>

\* the frame callback boundHandleScroll requested
ScrollFrame ==
    /\ sched.scrollFrame > 0
    /\ inst' = IF settings.navigationType = "arrows" /\ ~IsVerticalMobile
               THEN inst ELSE updateTimeline(inst)
    /\ sched' = [sched EXCEPT !.scrollFrame = @ - 1, !.ticking = FALSE]
    /\ UNCHANGED <<config, scrollSpacer, refs, env>>

\* the frame callback bindEvents requested
InitFrame ==
    /\ sched.initFrame
    /\ inst' = IF settings.navigationType = "arrows"
               THEN goToIndex(inst, 0) ELSE updateTimeline(inst)
    /\ sched' = [sched EXCEPT !.initFrame = FALSE]
    /\ UNCHANGED <<config, scrollSpacer, refs, env>>

\* the window is resized to width w and boundHandleResize, while registered,
\* restarts its timer
Resize(w) ==
    /\ sched.resizeListener
    /\ w # env.innerWidth
    /\ env' = [env EXCEPT !.innerWidth = w]
    /\ sched' = boundHandleResize(sched)
    /\ UNCHANGED <<config, scrollSpacer, refs, inst>>

\* the resize timer fires after ResizeDelay ms without a resize
ResizeTimeout ==
    /\ sched.resizeTimeout > 0
    /\ inst' = LET s == calculateDimensions(inst)
               IN  IF settings.navigationType = "arrows" /\ ~IsVerticalMobile
                   THEN goToIndex(s, s.currentIndex)
                   ELSE updateTimeline(s)
    /\ sched' = [sched EXCEPT !.resizeTimeout = @ - 1]
    /\ UNCHANGED <<config, scrollSpacer, refs, env>>

\* the layout of the attached tree changes without a window resize; the
\* ResizeObserver on the items track, where there is one, will report it
Relayout(l) ==
    /\ scrollSpacer
    /\ l # env.layout
    /\ env' = [env EXCEPT !.layout = l]
    /\ sched' = IF sched.observing
                THEN [sched EXCEPT !.observerPending = TRUE] ELSE sched
    /\ UNCHANGED <<config, scrollSpacer, refs, inst>>

\* the ResizeObserver callback
ObserverCallback ==
    /\ sched.observing /\ sched.observerPending
    /\ inst' = updateTimeline(calculateDimensions(inst))
    /\ sched' = [sched EXCEPT !.observerPending = FALSE]
    /\ UNCHANGED <<config, scrollSpacer, refs, env>>

\* instance.goToIndex(index); navigation commands are given in arrow mode
GoToIndex(index) ==
    /\ settings.navigationType = "arrows"
    /\ inst' = goToIndex(inst, index)
    /\ UNCHANGED <<config, scrollSpacer, refs, sched, env>>

\* instance.goNext(), also the next button's click listener
GoNext ==
    /\ settings.navigationType = "arrows"
    /\ inst' = goNext(inst)
    /\ UNCHANGED <<config, scrollSpacer, refs, sched, env>>

\* instance.goPrev(), also the previous button's click listener
GoPrev ==
    /\ settings.navigationType = "arrows"
    /\ inst' = goPrev(inst)
    /\ UNCHANGED <<config, scrollSpacer, refs, sched, env>>

\* instance.destroy()
Destroy ==
    /\ scrollSpacer' = FALSE
    /\ refs' = [refs EXCEPT !.itemsTrack = FALSE, !.progressFill = FALSE, !.dots = 0]
    /\ sched' = [sched EXCEPT !.scrollListener = FALSE, !.resizeListener = FALSE,
                              !.observing = FALSE, !.observerPending = FALSE]
    /\ UNCHANGED <<config, inst, env>>

Next ==
    \/ \E y \in ScrollYs : Scroll(y)
    \/ ScrollFrame
    \/ InitFrame
    \/ \E w \in InnerWidths : Resize(w)
    \/ ResizeTimeout
    \/ \E l \in Layouts : Relayout(l)
    \/ ObserverCallback
    \/ \E index \in Indexes : GoToIndex(index)
    \/ GoNext
    \/ GoPrev
    \/ Destroy

Spec == Init /\ [][Next]_vars

(***************************************************************************)
(* Properties.                                                             *)
(***************************************************************************)
Arrows == settings.navigationType = "arrows"

\* the instance holds the dots and targets goToIndex writes to
NavigatorTargets ==
    ~NoData /\ ItemsContainer /\ refs.itemsTrack /\ ProgressTrack /\ refs.dots = ItemCount

\* lo <= x <= hi, x a number
InRange(x, lo, hi) == IsFinite(x) /\ Leq(Num(lo), x) /\ Leq(x, Num(hi))

\* C1: with itemCount > 0, 0 <= currentIndex <= itemCount - 1 in every
\* reachable state, whatever goToIndex(i), goNext() and goPrev() calls were made
\* (i ranges over Indexes, which has a negative index and indexes >= itemCount).
C1_IndexInRange ==
    ~NoData => (0 <= inst.currentIndex /\ inst.currentIndex <= ItemCount - 1)

\* the navigator went to the last of several items
C1_Witness ==
    /\ Arrows /\ ItemCount = MaxItems /\ MaxItems >= 2
    /\ inst.currentIndex = ItemCount - 1
    /\ inst.nextDisabled /\ ~inst.prevDisabled

\* C2: goPrev() at currentIndex = 0 and goNext() at currentIndex =
\* itemCount - 1 return the instance state they were given: currentIndex, both
\* track translations, the fill, every dot's flag and both button flags.
C2_BoundaryNoOp ==
    /\ inst.currentIndex = 0 => goPrev(inst) = inst
    /\ (~data.null /\ inst.currentIndex = ItemCount - 1) => goNext(inst) = inst

\* the navigator stands on the last of several items after goToIndex wrote the
\* page, and goNext() can be called
C2_Witness ==
    /\ Arrows /\ ItemCount >= 2 /\ NavigatorTargets
    /\ inst.currentIndex = ItemCount - 1
    /\ inst.nextDisabled /\ inst.fillWidth = Num(100)
    /\ ENABLED GoNext

\* C3: a goToIndex(i) whose index clamps to itemCount - 1 (itemCount > 0)
\* writes a fill of exactly 100%, in every layout: with the navigator's
\* targets present the fill afterwards is 100%, and in no case does the call
\* change the fill to anything else.
C3_LastIndexFills ==
    \A index \in Indexes :
        (~NoData /\ ClampIndex(index) = ItemCount - 1) =>
            LET r == goToIndex(inst, index)
            IN  /\ NavigatorTargets => r.fillWidth = Num(100)
                /\ r.fillWidth # inst.fillWidth => r.fillWidth = Num(100)

\* goToIndex stands on the last item with a fill of 100% where the dot's
\* position alone gives another value (one item: goToIndex(0))
C3_Witness ==
    /\ Arrows /\ settings.mobileLayout = "horizontal" /\ NavigatorTargets
    /\ ItemCount = 1 /\ inst.currentIndex = 0
    /\ inst.fillWidth = Num(100)
    /\ IsFinite(inst.itemsTransform)
    /\ GeometricFillPercent(0, inst.itemsTransform) # Num(100)

\* C4: goToIndex is idempotent: from every reachable state and for every
\* index, goToIndex(i) applied to the result of goToIndex(i) (same layout)
\* changes nothing.
C4_GoToIndexIdempotent ==
    \A index \in Indexes :
        goToIndex(goToIndex(inst, index), index) = goToIndex(inst, index)

\* goToIndex(1) moved the tracks and filled dots, and a second goToIndex(1)
\* would leave that state as it is
C4_Witness ==
    /\ Arrows /\ NavigatorTargets /\ ItemCount >= 2
    /\ inst.currentIndex = 1
    /\ IsFinite(inst.itemsTransform) /\ inst.itemsTransform.n > 0
    /\ inst.dotFilled[0] /\ inst.dotFilled[1]
    /\ goToIndex(inst, 1) = inst

\* C5: lock invariant: in every reachable state the item track's translation is
\* the label track's translation (both unwritten, or the same written value).
C5_TracksLocked == inst.itemsTransform = inst.labelsTransform

\* a scroll-driven update moved both tracks by a fractional progress
C5_Witness ==
    /\ ~Arrows
    /\ IsFinite(inst.itemsTransform) /\ inst.itemsTransform.n > 0
    /\ IsFinite(inst.progress) /\ inst.progress.d > 1
    /\ inst.labelsTransform = inst.itemsTransform

\* updateTimeline has its targets: it does not return at its first check
UpdateTargets == scrollSpacer /\ refs.itemsTrack /\ refs.progressFill

\* a step in which a frame callback runs updateTimeline on the instance as it
\* is, and one in which the resize timer or the ResizeObserver callback runs
\* calculateDimensions and then updateTimeline
FrameUpdateStep ==
    /\ UpdateTargets
    /\ \/ ScrollFrame /\ (~Arrows \/ IsVerticalMobile)
       \/ InitFrame /\ ~Arrows

RecalcUpdateStep ==
    /\ UpdateTargets
    /\ \/ ResizeTimeout /\ (~Arrows \/ IsVerticalMobile)
       \/ ObserverCallback

\* a step in which goToIndex runs and has its targets
GoToIndexStep ==
    /\ NavigatorTargets
    /\ \/ \E index \in Indexes : GoToIndex(index)
       \/ GoNext /\ inst.currentIndex < ItemCount - 1
       \/ GoPrev /\ inst.currentIndex > 0
       \/ InitFrame /\ Arrows
       \/ ResizeTimeout /\ Arrows /\ ~IsVerticalMobile

\* the scrollRange updateTimeline computes on s, and its progress were the
\* window scrolled to y
ScrollRange(s) ==
    IF IsVerticalMobile THEN VerticalScrollRange ELSE HorizontalScrollRange(s)

ProgressAt(s, y) ==
    IF IsVerticalMobile THEN VerticalProgressAt(y) ELSE HorizontalProgressAt(s, y)

\* C6: the progress fraction updateTimeline computed last is a number in
\* [0,1], for every scroll offset and every layout, in both orientations.
C6_ProgressInUnit ==
    inst.progress # Unset => InRange(inst.progress, 0, 1)

\* C7: every run of updateTimeline with scrollRange <= 0 computes progress 0
\* (horizontal: scrollHeight - contentHeight <= 0; vertical: areaHeight -
\* threshold <= 0), whatever the scroll offset.
C7_DegenerateRangeIsZero ==
    [][ /\ (FrameUpdateStep /\ Leq(ScrollRange(inst), Num(0)))
            => inst'.progress = Num(0)
        /\ (RecalcUpdateStep /\ Leq(ScrollRange(calculateDimensions(inst)), Num(0)))
            => inst'.progress = Num(0) ]_vars

\* with the layout, the viewport and s fixed, progress does not decrease as
\* the scroll offset grows
MonotonicInScroll(s) ==
    \A y1, y2 \in ScrollYs :
        y1 <= y2 => Leq(ProgressAt(s, y1), ProgressAt(s, y2))

\* C8: in every run of updateTimeline the progress is monotonic in the scroll
\* offset, everything else fixed: y1 <= y2 gives progress(y1) <= progress(y2),
\* in both orientations.
C8_ProgressMonotonic ==
    [][ /\ FrameUpdateStep => MonotonicInScroll(inst)
        /\ RecalcUpdateStep => MonotonicInScroll(calculateDimensions(inst)) ]_vars

\* C9: what every update emits is in range: the translation updateTimeline
\* (horizontal) or goToIndex writes is in [0, maxTranslate] with maxTranslate =
\* max(0, trackLength - containerLength), and the fill either writes is in
\* [0,100]%.
C9_EmittedInRange ==
    [][ /\ (FrameUpdateStep \/ RecalcUpdateStep) =>
              /\ InRange(inst'.fillWidth, 0, 100)
              /\ InRange(inst'.fillHeight, 0, 100)
              /\ ~IsVerticalMobile => InRange(inst'.itemsTransform, 0, MaxTranslate)
        /\ GoToIndexStep =>
              /\ InRange(inst'.fillWidth, 0, 100)
              /\ InRange(inst'.itemsTransform, 0, MaxTranslate) ]_vars

\* C10: after goToIndex(i) on an instance with itemCount > 0, each dot the
\* instance holds is filled exactly when its index is <= currentIndex.
C10_DotsFollowIndex ==
    \A index \in Indexes :
        ~NoData =>
            LET r == goToIndex(inst, index)
            IN  \A i \in 0..(refs.dots - 1) :
                    r.dotFilled[i] <=> (i <= r.currentIndex)

\* goToIndex stands on a middle item: the dots up to it are filled, the next
\* one is not
C10_Witness ==
    /\ Arrows /\ NavigatorTargets /\ ItemCount >= 3
    /\ inst.currentIndex = 1
    /\ inst.dotFilled[0] /\ inst.dotFilled[1] /\ ~inst.dotFilled[2]
    /\ inst.prevDisabled = FALSE /\ IsFinite(inst.fillWidth)

\* the instance holds both arrow buttons
Buttons == refs.prevButton /\ refs.nextButton

\* on s the previous button is disabled exactly at index 0 and the next button
\* exactly at the last index
ButtonsMatch(s) ==
    /\ s.prevDisabled <=> (s.currentIndex = 0)
    /\ s.nextDisabled <=> (s.currentIndex = ItemCount - 1)

\* C11 as stated: in arrow mode, on an instance that holds its buttons, after
\* each of goToIndex(i), goNext() and goPrev() the previous button is disabled
\* iff currentIndex = 0 and the next button iff currentIndex = itemCount - 1.
C11_ButtonsAfterEveryCommand ==
    (Arrows /\ Buttons) =>
        /\ \A index \in Indexes : ButtonsMatch(goToIndex(inst, index))
        /\ ButtonsMatch(goNext(inst))
        /\ ButtonsMatch(goPrev(inst))

\* C11 amended: in arrow mode, on an instance that holds its buttons, the
\* previous button is disabled iff currentIndex = 0 and the next button iff
\* currentIndex = itemCount - 1 after every goToIndex(i), after every goNext()
\* and goPrev() that moves, and in every state once the initial frame callback
\* has run (so after boundary goNext() and goPrev() from then on).
C11_ButtonsFollowIndex ==
    (Arrows /\ Buttons) =>
        /\ \A index \in Indexes : ButtonsMatch(goToIndex(inst, index))
        /\ inst.currentIndex < ItemCount - 1 => ButtonsMatch(goNext(inst))
        /\ inst.currentIndex > 0 => ButtonsMatch(goPrev(inst))
        /\ ~sched.initFrame =>
              ButtonsMatch(inst) /\ ButtonsMatch(goNext(inst)) /\ ButtonsMatch(goPrev(inst))

\* one item, after goToIndex(0): both buttons are disabled
C11_Witness ==
    /\ Arrows /\ Buttons /\ ItemCount = 1 /\ ~sched.initFrame
    /\ inst.currentIndex = 0
    /\ inst.prevDisabled /\ inst.nextDisabled

\* on s the filled dots are a prefix by index
PrefixFilled(s) ==
    \A i, j \in DOMAIN s.dotFilled : (j < i /\ s.dotFilled[i]) => s.dotFilled[j]

\* C12: in scroll mode the filled dots are a prefix by index in every
\* reachable state, so after every updateTimeline (the only writer of the dots
\* there), in the horizontal and in the vertical branch: if dot i is filled,
\* every dot j < i is filled.
C12_FilledDotsArePrefix == ~Arrows => PrefixFilled(inst)

\* the horizontal branch filled some dots and not others, at a progress
\* strictly between 0 and 1
C12_Witness ==
    /\ ~Arrows /\ ~IsVerticalMobile /\ ItemCount >= 3 /\ UpdateTargets
    /\ IsFinite(inst.progress) /\ inst.progress.n > 0 /\ inst.progress.d > 1
    /\ inst.dotFilled[0] /\ ~inst.dotFilled[ItemCount - 1]

\* a step in which calculateDimensions runs on an instance that has its spacer
CalculateStep == scrollSpacer /\ ~NoData /\ (ResizeTimeout \/ ObserverCallback)

CommandStep == (\E index \in Indexes : GoToIndex(index)) \/ GoNext \/ GoPrev

\* C14 (inst' = inst: nothing written, nothing raised, see threw in goNext):
\* with itemCount = 0 (the list is empty or was never extracted) every
\* goToIndex(i), goNext() and goPrev() is a no-op: it raises no error and
\* leaves currentIndex, the translations, the fill, the dot flags and the
\* button flags as they were.
C14_NoDataNoOp ==
    [][ (NoData /\ CommandStep) => inst' = inst ]_vars

C16_OneUpdatePerFrame ==
    [][ /\ (\E y \in ScrollYs : Scroll(y)) =>
              /\ sched'.scrollFrame = 1
              /\ sched.scrollFrame = 1 => sched' = sched
        /\ ScrollFrame =>
              /\ sched.scrollFrame = 1 /\ sched'.scrollFrame = 0
              /\ inst' = updateTimeline(inst) ]_vars

\* C16 amended: frame coalescing. A scroll signal leaves exactly one frame
\* callback pending, and schedules nothing when one is pending already; the
\* callback runs with no other pending, and it runs updateTimeline once, except
\* that the arrow-mode callback runs nothing unless the window is then at most
\* 767 wide (mobileLayout is vertical wherever that callback exists).
C16_FrameCoalescing ==
    [][ /\ (\E y \in ScrollYs : Scroll(y)) =>
              /\ sched'.scrollFrame = 1
              /\ sched.scrollFrame = 1 => sched' = sched
        /\ ScrollFrame =>
              /\ sched.scrollFrame = 1 /\ sched'.scrollFrame = 0
              /\ (~Arrows \/ IsMobile) => inst' = updateTimeline(inst)
              /\ (Arrows /\ ~IsMobile) => inst' = inst ]_vars

\* a frame callback is pending in scroll mode, further scroll signals can
\* arrive, and the progress on the page is not the one of the present offset
C16_Witness ==
    /\ ~Arrows /\ UpdateTargets /\ ~IsVerticalMobile
    /\ sched.scrollFrame = 1 /\ sched.ticking /\ sched.scrollListener
    /\ env.scrollY = 100 * MaxScroll
    /\ IsFinite(inst.progress) /\ inst.progress # HorizontalProgress(inst)

\* a step in which goToIndex runs, and one in which updateTimeline runs
GoToIndexRun ==
    \/ CommandStep
    \/ InitFrame /\ Arrows
    \/ ResizeTimeout /\ Arrows /\ ~IsVerticalMobile

UpdateTimelineRun ==
    \/ ScrollFrame /\ (~Arrows \/ IsVerticalMobile)
    \/ InitFrame /\ ~Arrows
    \/ ResizeTimeout /\ (~Arrows \/ IsVerticalMobile)
    \/ ObserverCallback

\* the step writes the progress fill or a dot's filled flag
ProgressWritten ==
    \/ inst'.fillWidth # inst.fillWidth
    \/ inst'.fillHeight # inst.fillHeight
    \/ inst'.dotFilled # inst.dotFilled

\* C17: single writer of progress: on an instance with navigationType scroll
\* every step that writes the fill or a dot is a run of updateTimeline, and on
\* an instance with navigationType arrows every such step is a run of
\* goToIndex.
C17_SingleWriter ==
    [][ ProgressWritten => IF Arrows THEN GoToIndexRun ELSE UpdateTimelineRun ]_vars

\* In the formulas below inst' = inst says the step was a no-op on the instance:
\* it wrote nothing and raised nothing (a raised error sets inst.threw).

\* destroy() has run: bindEvents registers the resize listener in both modes
\* and only destroy() removes it
Destroyed == ~sched.resizeListener

\* C18: after destroy(), each callback scheduled before it (a scroll frame
\* callback, the initial frame callback, the resize timer) runs as a no-op: it
\* raises no error and changes neither currentIndex nor the spacer height, the
\* translations, the fill, a dot flag or a button flag.
C18_PendingCallbacksNoOp ==
    [][ (Destroyed /\ (ScrollFrame \/ InitFrame \/ ResizeTimeout)) => inst' = inst ]_vars

\* C19: after destroy(), on an instance with items, every goToIndex(i),
\* goNext() and goPrev() leaves currentIndex and every emitted output as it
\* was.
C19_NoTransitionAfterDestroy ==
    [][ (Destroyed /\ ~NoData /\ CommandStep) => inst' = inst ]_vars

\* C20: fail-soft without partial mutation: a run of goToIndex (on an instance
\* with items) that misses one of its targets, and a run of updateTimeline that
\* misses one of its own, raises no error and leaves the whole instance state
\* as it was: currentIndex, the translations, the fill, the dot flags and the
\* button flags.
C20_FailSoft ==
    [][ /\ (~NoData /\ ~NavigatorTargets /\ GoToIndexRun) => inst' = inst
        /\ (~UpdateTargets /\ UpdateTimelineRun) => inst' = inst ]_vars

\* the pass a resize trigger runs on s: calculateDimensions, then the mode's
\* update (the arrow-mode resize timer picks it by the width of the moment)
ResizePass(s) ==
    LET s1 == calculateDimensions(s)
    IN  IF Arrows /\ ~IsVerticalMobile THEN goToIndex(s1, s1.currentIndex)
        ELSE updateTimeline(s1)

\* C21: a content-size change of the item track, without a window resize,
\* triggers in both navigation modes the recomputation a resize triggers: the
\* change leaves a callback pending, and the callback runs calculateDimensions
\* and then the mode's update.
C21_ContentSizeRecomputes ==
    [][ /\ (\E l \in Layouts : Relayout(l)) => sched'.observerPending
        /\ ObserverCallback => inst' = ResizePass(inst) ]_vars

\* C22: in arrow mode the frame callback scheduled at initialization runs
\* once (once it has run it is never pending again) and reverts no navigation
\* command: a currentIndex that a goNext() or goToIndex(i) before it moved off
\* 0 is still the currentIndex after it.
C22_InitialFrameKeepsIndex ==
    [][ Arrows =>
          /\ ~sched.initFrame => ~sched'.initFrame
          /\ InitFrame => inst'.currentIndex = inst.currentIndex ]_vars

\* The scroll-mode instances with the scheduling the browser guarantees:
\* requested animation frames fire, timers fire, observer callbacks are
\* delivered.
ScrollInit == Init /\ ~Arrows

ScrollNext ==
    \/ \E y \in ScrollYs : Scroll(y)
    \/ ScrollFrame
    \/ InitFrame
    \/ \E w \in InnerWidths : Resize(w)
    \/ ResizeTimeout
    \/ \E l \in Layouts : Relayout(l)
    \/ ObserverCallback
    \/ Destroy

\* what each callback does to the schedule when it runs: every step of
\* ScrollFrame, InitFrame, ResizeTimeout and ObserverCallback is such a step,
\* and no other step of ScrollNext is
ScrollFrameFires ==
    /\ sched.scrollFrame > 0
    /\ sched' = [sched EXCEPT !.scrollFrame = @ - 1, !.ticking = FALSE]

InitFrameFires ==
    /\ sched.initFrame
    /\ sched' = [sched EXCEPT !.initFrame = FALSE]

ResizeTimeoutFires ==
    /\ sched.resizeTimeout > 0
    /\ sched' = [sched EXCEPT !.resizeTimeout = @ - 1]

ObserverCallbackFires ==
    /\ sched.observing /\ sched.observerPending
    /\ sched' = [sched EXCEPT !.observerPending = FALSE]

ScrollFairSpec ==
    /\ ScrollInit /\ [][ScrollNext]_vars
    /\ WF_sched(ScrollFrameFires) /\ WF_sched(InitFrameFires)
    /\ WF_sched(ResizeTimeoutFires) /\ WF_sched(ObserverCallbackFires)

\* the fraction on the page is the one updateTimeline computes for the present
\* scroll offset
ProgressFresh == inst.progress = ProgressAt(inst, env.scrollY)

\* C23: no lost scroll update: in scroll mode, whenever the fraction on the
\* page of a live instance is not the one of the present scroll offset, an
\* updateTimeline run eventually makes it so (or the instance is destroyed);
\* and when nothing is pending the fraction is the one of the present offset.
C23_NoLostScrollUpdate ==
    /\ (UpdateTargets /\ ~ProgressFresh) ~> (ProgressFresh \/ Destroyed)
    /\ [](( /\ UpdateTargets /\ sched.scrollFrame = 0 /\ ~sched.initFrame
            /\ sched.resizeTimeout = 0 /\ ~sched.observerPending ) => ProgressFresh)

\* the window was scrolled to the end of its range, the frame callback has run
\* and the fraction on the page is the one of that offset
C23_Witness ==
    /\ ~Arrows /\ UpdateTargets /\ ~IsVerticalMobile
    /\ env.scrollY = 100 * MaxScroll /\ sched.scrollFrame = 0 /\ ~sched.ticking
    /\ IsFinite(inst.progress) /\ inst.progress.n > 0
    /\ ProgressFresh

\* the orientation calculateDimensions last applied to the spacer of a
\* scroll-mode instance: 'auto' is the vertical rule, a height the horizontal
\* one
DimensionsVertical == inst.spacerHeight = Auto
DimensionsHorizontal == inst.spacerHeight = Num(inst.scrollHeight)

\* C24: mode consistency: in scroll mode every frame callback that runs
\* updateTimeline runs the branch of the orientation calculateDimensions last
\* applied: the horizontal branch with a scrollHeight computed under the
\* horizontal rule, the vertical branch after the vertical rule, whatever
\* resize, debounce and scroll frame interleave.
C24_ModeConsistency ==
    [][ (~Arrows /\ FrameUpdateStep) =>
            IF IsVerticalMobile THEN DimensionsVertical ELSE DimensionsHorizontal ]_vars

====
